---- MODULE Spec2Model ----
(***************************************************************************)
(* Hisab Kitab (src/app.py): a multi-tenant invoice application.  The      *)
(* model covers the invoices/items store, the handlers that read and write *)
(* it (new_invoice, view_invoice, delete_invoice, invoice_pdf), and the    *)
(* helpers next_invoice_no, calc_totals and clean_float.                   *)
(*                                                                         *)
(* Text is a sequence of one-character strings.  A REAL column holds a     *)
(* count of eighths (qty, rate) and gst_rate a multiple of 25 percent:     *)
(* on such values every product, sum and gst_rate/100.0 of calc_totals is  *)
(* exact in IEEE double arithmetic, so the integer arithmetic below        *)
(* computes exactly what the floating-point code computes.                 *)
(***************************************************************************)
EXTENDS Integers, Sequences, FiniteSets, TLC

\* ------------------------------------------------------------------ bounds
MaxInv == 2      \* invoices in the persisted store when the process starts
MaxItems == 2    \* items of one persisted invoice
MaxNumbered == 3 \* the same, where the invoice numbers vary
MaxLen == 5      \* length of a raw amount text given to clean_float
MaxDesc == 72    \* length of an item description written to the PDF
MaxNotes == 34   \* parts (lines) of the notes written to the PDF

\* ------------------------------------------------------------------- text
DigitChars == {"0", "1", "2", "3", "4", "5", "6", "7", "8", "9"}

Whitespace == {" "}

DigitVal(c) ==
  CASE c = "0" -> 0 [] c = "1" -> 1 [] c = "2" -> 2 [] c = "3" -> 3
    [] c = "4" -> 4 [] c = "5" -> 5 [] c = "6" -> 6 [] c = "7" -> 7
    [] c = "8" -> 8 [] c = "9" -> 9

DigitChar(d) ==
  CASE d = 0 -> "0" [] d = 1 -> "1" [] d = 2 -> "2" [] d = 3 -> "3"
    [] d = 4 -> "4" [] d = 5 -> "5" [] d = 6 -> "6" [] d = 7 -> "7"
    [] d = 8 -> "8" [] d = 9 -> "9"

\* str.strip(): leading and trailing whitespace removed
RECURSIVE lstrip(_)
lstrip(s) ==
  IF s # <<>> /\ Head(s) \in Whitespace THEN lstrip(Tail(s)) ELSE s

RECURSIVE rstrip(_)
rstrip(s) ==
  IF s # <<>> /\ s[Len(s)] \in Whitespace
  THEN rstrip(SubSeq(s, 1, Len(s) - 1))
  ELSE s

strip(s) == rstrip(lstrip(s))

\* str.replace(c, ""): every occurrence of the character c removed
remove_char(s, c) == SelectSeq(s, LAMBDA x : x # c)

\* str(n) for n >= 0
RECURSIVE str_int(_)
str_int(n) ==
  IF n < 10 THEN <<DigitChar(n)>>
  ELSE str_int(n \div 10) \o <<DigitChar(n % 10)>>

\* str.zfill(w): zeros on the left up to width w
RECURSIVE zfill(_, _)
zfill(s, w) == IF Len(s) >= w THEN s ELSE zfill(<<"0">> \o s, w)

\* int(s) of a non-empty text of decimal digits
RECURSIVE digits_value(_)
digits_value(s) ==
  IF s = <<>> THEN 0
  ELSE 10 * digits_value(SubSeq(s, 1, Len(s) - 1)) + DigitVal(s[Len(s)])

AllDigits(s) == s # <<>> /\ \A i \in 1..Len(s) : s[i] \in DigitChars

\* str.split("-")[-1]: the text after the last "-" (the whole text if none)
RECURSIVE last_field(_)
last_field(s) ==
  IF s = <<>> \/ s[Len(s)] = "-" THEN <<>>
  ELSE last_field(SubSeq(s, 1, Len(s) - 1)) \o <<s[Len(s)]>>

\* SQLite compares LIKE patterns without regard to ASCII case
Upper(c) ==
  CASE c = "h" -> "H" [] c = "k" -> "K" [] OTHER -> c

\* text LIKE prefix || '%'
LikePrefix(s, prefix) ==
  /\ Len(s) >= Len(prefix)
  /\ \A i \in 1..Len(prefix) : Upper(s[i]) = Upper(prefix[i])


\* ------------------------------------------------------------------ store
VARIABLES
  invoices,   \* rows of table invoices: [id, user_id, invoice_no, gst_mode, gst_rate]
  items,      \* rows of table items: [id, invoice_id, description, qty, rate]
  today,      \* datetime.now().strftime("%Y%m%d")
  slot,       \* per client: the request in flight, or the form it holds
  resp,       \* the response last sent
  cf,         \* clean_float: the call last made
  pdf         \* invoice_pdf: the document being written

vars == <<invoices, items, today, slot, resp, cf, pdf>>

Users == {1, 2}

Clients == {1, 2}

D1 == <<"2", "0", "2", "4", "0", "1", "0", "1">>

D2 == <<"2", "0", "2", "4", "0", "1", "0", "2">>

Days == {D1, D2}

\* f"HK-{today}-"
Prefix(day) == <<"H", "K", "-">> \o day \o <<"-">>

\* the lookup without its user_id condition
select_invoice_of_anyone(invoice_id, user_id) ==
  {inv \in invoices : inv.id = invoice_id}

\* SELECT * FROM invoices WHERE id=? AND user_id=?   (fetchone: at most one row)
select_invoice(invoice_id, user_id) ==
  {inv \in invoices : inv.id = invoice_id /\ inv.user_id = user_id}

\* rows in rowid order, as the table scan returns them
RECURSIVE by_id(_)
by_id(rows) ==
  IF rows = {} THEN <<>>
  ELSE LET first == CHOOSE r \in rows : \A q \in rows : r.id <= q.id
       IN  <<first>> \o by_id(rows \ {first})

\* SELECT * FROM items WHERE invoice_id=?
select_items(invoice_id) ==
  by_id({it \in items : it.invoice_id = invoice_id})

\* round(x, 2) of the exact value num/den: the nearest cent, ties to even
round2(num, den) ==
  LET q == (100 * num) \div den
      r == (100 * num) % den
  IN  IF 2 * r < den THEN q
      ELSE IF 2 * r > den THEN q + 1
      ELSE IF q % 2 = 0 THEN q ELSE q + 1

\* the loop  subtotal += float(it["qty"]) * float(it["rate"]),  in 1/64
RECURSIVE subtotal_of(_)
subtotal_of(its) ==
  IF its = <<>> THEN 0
  ELSE subtotal_of(SubSeq(its, 1, Len(its) - 1))
       + its[Len(its)].qty * its[Len(its)].rate

NotFound ==
  [inv |-> {}, items |-> <<>>, subtotal |-> 0, gst_amount |-> 0, total |-> 0]

\* calc_totals after its two SELECTs: inv is the fetchone() result (a set
\* of at most one row), its the fetchall() result.  Amounts come back in cents.
calc_totals_of(inv, its) ==
  IF inv = {} THEN NotFound
  ELSE LET row == CHOOSE r \in inv : TRUE
           subtotal == subtotal_of(its)                          \* in 1/64
           gst_amount == IF row.gst_mode # 0
                         THEN subtotal * (row.gst_rate \div 25)  \* in 1/256
                         ELSE 0
           total == 4 * subtotal + gst_amount                    \* in 1/256
       IN  [inv |-> inv, items |-> its,
            subtotal |-> round2(subtotal, 64),
            gst_amount |-> round2(gst_amount, 256),
            total |-> round2(total, 256)]

\* calc_totals when no other request commits between its two SELECTs
calc_totals(invoice_id, user_id) ==
  calc_totals_of(select_invoice(invoice_id, user_id), select_items(invoice_id))

\* the query without its user_id condition
latest_numbered_of_anyone(user_id, prefix) ==
  LET rows == {inv \in invoices : LikePrefix(inv.invoice_no, prefix)}
  IN  {inv \in rows : \A q \in rows : q.id <= inv.id}

\* the row of  ... WHERE user_id=? AND invoice_no LIKE ? ORDER BY id DESC LIMIT 1
latest_numbered(user_id, prefix) ==
  LET rows == {inv \in invoices :
                 inv.user_id = user_id /\ LikePrefix(inv.invoice_no, prefix)}
  IN  {inv \in rows : \A q \in rows : q.id <= inv.id}

next_invoice_no(user_id) ==
  LET prefix == Prefix(today)
      row == latest_numbered(user_id, prefix)
  IN  IF row = {} THEN prefix \o <<"0", "0", "1">>
      ELSE LET last == last_field((CHOOSE r \in row : TRUE).invoice_no)
               n == IF AllDigits(last) THEN digits_value(last) + 1 ELSE 1
           IN  prefix \o zfill(str_int(n), 3)


\* ------------------------------------------------------------ clean_float
\* A parsed amount is the decimal mant * 10^-frac, without trailing zeros.
RECURSIVE decimal(_, _)
decimal(mant, frac) ==
  IF frac > 0 /\ mant % 10 = 0 THEN decimal(mant \div 10, frac - 1)
  ELSE [mant |-> mant, frac |-> frac]

\* the characters of the raw amounts modelled: no sign, exponent or underscore
AmountChars == {"0", "1", "2", ".", ",", "%", " ", "a"}

\* float(t) on text over AmountChars: digits with at most one point and at
\* least one digit, white space allowed around them; anything else raises
\* ValueError (ok = FALSE)
float(t) ==
  LET u == strip(t)
      dots == {i \in 1..Len(u) : u[i] = "."}
      whole == IF dots = {} THEN u
               ELSE SubSeq(u, 1, (CHOOSE i \in dots : TRUE) - 1)
      part == IF dots = {} THEN <<>>
              ELSE SubSeq(u, (CHOOSE i \in dots : TRUE) + 1, Len(u))
      ok == /\ Cardinality(dots) <= 1
            /\ \A i \in 1..Len(u) : u[i] \in DigitChars \cup {"."}
            /\ Len(whole) + Len(part) >= 1
  IN  IF ok
      THEN [ok |-> TRUE, val |-> decimal(digits_value(whole \o part), Len(part))]
      ELSE [ok |-> FALSE, val |-> decimal(0, 0)]

clean_float(text, default) ==
  LET t == strip(remove_char(text, "%"))
  IN  IF t = <<>> THEN default
      ELSE IF float(t).ok THEN float(t).val
      ELSE default

\* ------------------------------------------------------------ new_invoice
\* The posted form: the required header fields and the item arrays desc[],
\* qty[], rate[], as raw text.  The optional fields (emails, phones,
\* addresses, notes, gst_mode, gst_rate, place_of_supply) are only bound as
\* parameters of the INSERT and take no part in any decision.

\* (request.form.get(name) or fallback or "").strip()
field(raw, fallback) == strip(IF raw # <<>> THEN raw ELSE fallback)

Min(a, b) == IF a < b THEN a ELSE b

\* the loop over zip(descs, qtys, rates): one (d, qv, rv) per non-blank desc
RECURSIVE cleaned_rows(_, _, _, _)
cleaned_rows(descs, qtys, rates, n) ==
  IF n = 0 THEN <<>>
  ELSE LET d == strip(descs[n])
           qv == clean_float(qtys[n], decimal(1, 0))
           rv == clean_float(rates[n], decimal(0, 0))
           row == [description |-> d,
                   qty |-> IF qv.mant <= 0 THEN decimal(1, 0) ELSE qv,
                   rate |-> rv]
       IN  cleaned_rows(descs, qtys, rates, n - 1)
           \o (IF d = <<>> THEN <<>> ELSE <<row>>)

cleaned_items(form) ==
  cleaned_rows(form.descs, form.qtys, form.rates,
               Min(Len(form.descs), Min(Len(form.qtys), Len(form.rates))))

\* the statement  INSERT INTO invoices(<columns>) VALUES(<placeholders>)
InsertColumns == 17

InsertPlaceholders == 18

\* cur.execute(...) of that statement: SQLite refuses to prepare a statement
\* whose VALUES list is not as long as its column list, and sqlite3 raises
\* OperationalError ("18 values for 17 columns") before any row is written
insert_invoice_raises == InsertPlaceholders # InsertColumns

\* the handler without its check  if not cleaned_items
new_invoice_post_any_items(form, business_name) ==
  IF strip(form.invoice_no) = <<>> \/ strip(form.invoice_date) = <<>>
     \/ field(form.from_name, business_name) = <<>> \/ strip(form.to_name) = <<>>
  THEN [status |-> "new_invoice",
        flash |-> "Invoice No, Date, From Name, To Name required."]
  ELSE IF insert_invoice_raises
  THEN [status |-> "error", flash |-> ""]
  ELSE [status |-> "view_invoice", flash |-> ""]

\* the outcome of POST /new for a logged-in user: where the response leads
new_invoice_post(form, business_name) ==
  LET invoice_no == strip(form.invoice_no)
      invoice_date == strip(form.invoice_date)
      from_name == field(form.from_name, business_name)
      to_name == strip(form.to_name)
  IN  IF invoice_no = <<>> \/ invoice_date = <<>>
         \/ from_name = <<>> \/ to_name = <<>>
      THEN [status |-> "new_invoice",
            flash |-> "Invoice No, Date, From Name, To Name required."]
      ELSE IF cleaned_items(form) = <<>>
      THEN [status |-> "new_invoice", flash |-> "At least 1 item required."]
      ELSE IF insert_invoice_raises
      THEN [status |-> "error", flash |-> ""]
      ELSE [status |-> "view_invoice", flash |-> ""]

\* No path of new_invoice reaches a write: the first statement that would
\* write, the INSERT into invoices, raises, and the handler has no except
\* clause, so the item INSERTs and the commit that follow it never run.


\* --------------------------------------------------------------- requests
NoForm ==
  [invoice_no |-> <<>>, invoice_date |-> <<>>, from_name |-> <<>>,
   to_name |-> <<>>, descs |-> <<>>, qtys |-> <<>>, rates |-> <<>>]

\* a response: the handler and session user, the invoice id of the URL or
\* of the redirect, where it leads (status), the flashed message, and the
\* data handed to the template or written into the PDF
Response(op, user, id, out, t, form, business_name) ==
  [op |-> op, user |-> user, id |-> id,
   status |-> out.status, flash |-> out.flash,
   inv |-> t.inv, items |-> t.items,
   subtotal |-> t.subtotal, gst_amount |-> t.gst_amount, total |-> t.total,
   form |-> form, business_name |-> business_name]

NoResponse ==
  Response("", 0, 0, [status |-> "", flash |-> ""], NotFound, NoForm, <<>>)

Idle == [pc |-> "idle", user |-> 0, id |-> 0, inv |-> {}, no |-> <<>>]

IdPool == 1..(MaxInv + 1)

TextPool == {<<>>, <<" ">>, <<"A">>}

BusinessNames == {<<>>, <<"B">>}

DescPool == {<<>>, << <<" ">> >>, << <<"A">> >>, << <<" ">>, <<"A">> >>}

QtyPool == {<< <<"2">>, <<"0">> >>, << <<"a">> >>}

RatePool == {<< <<"1", ".", "5">>, <<"1", ",", "2">> >>}

\* the number of a posted form: the one its form was rendered with, or one
\* typed in
Numbers(c) == IF slot[c].pc = "form" THEN {slot[c].no} ELSE {<<"7">>}

\* every combination of present, blank and missing fields and item arrays
AllForms(c) ==
  [invoice_no : {<<>>} \cup Numbers(c),
   invoice_date : {<<>>, <<"A">>},
   from_name : TextPool,
   to_name : {<<>>, <<"A">>},
   descs : DescPool, qtys : QtyPool, rates : RatePool]

\* a complete form with one item, and the same form without its items
SomeForms(c) ==
  [invoice_no : Numbers(c),
   invoice_date : {<<"A">>},
   from_name : {<<"A">>},
   to_name : {<<"A">>},
   descs : {<<>>, << <<"A">> >>}, qtys : {<< <<"a">> >>}, rates : RatePool]

\* @login_required with no user_id in the session
login_required ==
  /\ resp' = Response("login_required", 0, 0,
                      [status |-> "login", flash |-> ""], NotFound, NoForm, <<>>)
  /\ UNCHANGED <<invoices, items, today, slot, cf, pdf>>

\* GET /new: the form, rendered with next_invoice_no(user_id)
new_invoice_get(c) ==
  /\ slot[c].pc \in {"idle", "form"}
  /\ \E u \in Users :
       LET no == next_invoice_no(u)
       IN  /\ slot' = [slot EXCEPT ![c] = [Idle EXCEPT !.pc = "form",
                                                      !.user = u, !.no = no]]
           /\ resp' = Response("new_invoice_get", u, 0,
                               [status |-> "render", flash |-> ""], NotFound,
                               [NoForm EXCEPT !.invoice_no = no], <<>>)
  /\ UNCHANGED <<invoices, items, today, cf, pdf>>

\* POST /new, with a form of `forms` and the business_name of the user's
\* settings row among `names`
new_invoice(c, forms, names) ==
  /\ slot[c].pc \in {"idle", "form"}
  /\ \E u \in Users, form \in forms, business_name \in names :
       resp' = Response("new_invoice", u, 0,
                        new_invoice_post(form, business_name),
                        NotFound, form, business_name)
  /\ slot' = [slot EXCEPT ![c] = Idle]
  /\ UNCHANGED <<invoices, items, today, cf, pdf>>

\* calc_totals, first SELECT, as called by view_invoice or invoice_pdf.  When
\* no row matches, what the second SELECT returns does not matter and the
\* handler redirects to the list.
calc_totals_begin(c, op) ==
  /\ slot[c].pc = "idle"
  /\ \E u \in Users, id \in IdPool :
       LET inv == select_invoice(id, u)
       IN  IF inv = {}
           THEN /\ resp' = Response(op, u, id,
                                    [status |-> "index",
                                     flash |-> "Invoice not found."],
                                    calc_totals_of(inv, select_items(id)),
                                    NoForm, <<>>)
                /\ slot' = slot
           ELSE /\ slot' = [slot EXCEPT ![c] = [Idle EXCEPT !.pc = op,
                                                           !.user = u,
                                                           !.id = id,
                                                           !.inv = inv]]
                /\ resp' = resp
  /\ UNCHANGED <<invoices, items, today, cf, pdf>>

\* calc_totals, second SELECT and the sums, and the rest of the handler
calc_totals_end(c, op, status) ==
  /\ slot[c].pc = op
  /\ resp' = Response(op, slot[c].user, slot[c].id,
                      [status |-> status, flash |-> ""],
                      calc_totals_of(slot[c].inv, select_items(slot[c].id)),
                      NoForm, <<>>)
  /\ slot' = [slot EXCEPT ![c] = Idle]
  /\ UNCHANGED <<invoices, items, today, cf, pdf>>

view_invoice_select(c) == calc_totals_begin(c, "view_invoice")

view_invoice(c) == calc_totals_end(c, "view_invoice", "render")

invoice_pdf_select(c) == calc_totals_begin(c, "invoice_pdf")

invoice_pdf(c) == calc_totals_end(c, "invoice_pdf", "pdf")

\* delete_invoice: SELECT id FROM invoices WHERE id=? AND user_id=?
delete_invoice_select(c) ==
  /\ slot[c].pc = "idle"
  /\ \E u \in Users, id \in IdPool :
       LET row == select_invoice(id, u)
       IN  IF row = {}
           THEN /\ resp' = Response("delete_invoice", u, id,
                                    [status |-> "index", flash |-> "Not allowed."],
                                    NotFound, NoForm, <<>>)
                /\ slot' = slot
           ELSE /\ slot' = [slot EXCEPT ![c] = [Idle EXCEPT
                                                  !.pc = "delete_invoice",
                                                  !.user = u, !.id = id]]
                /\ resp' = resp
  /\ UNCHANGED <<invoices, items, today, cf, pdf>>

\* the commit without  DELETE FROM items WHERE invoice_id=?
delete_invoice_only(c) ==
  /\ slot[c].pc = "delete_invoice"
  /\ invoices' = {inv \in invoices : inv.id # slot[c].id}
  /\ resp' = Response("delete_invoice", slot[c].user, slot[c].id,
                      [status |-> "index", flash |-> "Invoice deleted"],
                      NotFound, NoForm, <<>>)
  /\ slot' = [slot EXCEPT ![c] = Idle]
  /\ UNCHANGED <<items, today, cf, pdf>>

\* delete_invoice: the two DELETEs and the commit
delete_invoice(c) ==
  /\ slot[c].pc = "delete_invoice"
  /\ items' = {it \in items : it.invoice_id # slot[c].id}
  /\ invoices' = {inv \in invoices : inv.id # slot[c].id}
  /\ resp' = Response("delete_invoice", slot[c].user, slot[c].id,
                      [status |-> "index", flash |-> "Invoice deleted"],
                      NotFound, NoForm, <<>>)
  /\ slot' = [slot EXCEPT ![c] = Idle]
  /\ UNCHANGED <<today, cf, pdf>>

\* the date changes
midnight ==
  /\ today = D1
  /\ today' = D2
  /\ UNCHANGED <<invoices, items, slot, resp, cf, pdf>>

\* a call of clean_float
clean_float_call ==
  /\ ~cf.done
  /\ cf' = [cf EXCEPT !.done = TRUE, !.result = clean_float(cf.text, cf.default)]
  /\ UNCHANGED <<invoices, items, today, slot, resp, pdf>>

\* ------------------------------------------------------------ invoice_pdf
\* The page is A4, 297 mm high: height = 297 * 72 / 25.4 = 106920/127 points.
\* The cursor y is height - 50 less whole numbers of points, so the model
\* counts it in 1/127 point.  It is never nearer than 14/127 point to 60,
\* far more than the error of the floating-point subtractions, so  y < 60
\* decides in the code as it does here.
Unit == 127

\* height, of  width, height = A4
PageHeight == 106920

\* y = height - 50
TopMargin == PageHeight - 50 * Unit

\* the 60 of  if y < 60
BottomMargin == 60 * Unit

\* the 35 of  while len(desc) > 35
DescWidth == 35

\* the 95 of  while len(part) > 95
NoteWidth == 95

\* the 120 of  txt[:120]
LineWidth == 120

\* c * n
repeat(c, n) == [i \in 1..n |-> c]

\* f"{s:<w}"
pad_right(s, w) == IF Len(s) >= w THEN s ELSE s \o repeat(" ", w - Len(s))

\* f"{s:>w}"
pad_left(s, w) == IF Len(s) >= w THEN s ELSE repeat(" ", w - Len(s)) \o s

\* f"{x:.2f}" of a non-negative amount of `cents` hundredths
fmt2f(cents) ==
  str_int(cents \div 100) \o <<".">> \o zfill(str_int(cents % 100), 2)

\* f"{x:.2f}" of the float num/den: the nearest hundredth, ties to even
fmt_float(num, den) == fmt2f(round2(num, den))

\* txt[:n]
prefix_of(txt, n) == SubSeq(txt, 1, Min(Len(txt), n))

\* s.split(c)
RECURSIVE split(_, _)
split(s, c) ==
  IF \A i \in 1..Len(s) : s[i] # c THEN <<s>>
  ELSE LET k == CHOOSE i \in 1..Len(s) :
                  s[i] = c /\ \A j \in 1..(i - 1) : s[j] # c
       IN  <<SubSeq(s, 1, k - 1)>> \o split(SubSeq(s, k + 1, Len(s)), c)

\* one statement of invoice_pdf after the canvas is made: a call of line(),
\* a  y -= n,  c.showPage() or c.save().  `item` is the position of the item
\* whose description the line carries (0: none).
Line(txt, size, gap, item) ==
  [op |-> "line", txt |-> txt, size |-> size, gap |-> gap, item |-> item]

Spacing(n) == [op |-> "spacing", txt |-> <<>>, size |-> 0, gap |-> n, item |-> 0]

Statement(op) == [op |-> op, txt |-> <<>>, size |-> 0, gap |-> 0, item |-> 0]

\* line(label + value) if value
labelled(label, value) ==
  IF value # <<>> THEN <<Line(label \o value, 11, 16, 0)>> ELSE <<>>

Rule == Line(repeat("-", 95), 10, 14, 0)

\* the title and the invoice's number, date and place of supply
header_lines(inv, business_name) ==
  LET title == IF business_name # <<>> THEN business_name
               ELSE IF inv.from_name # <<>> THEN inv.from_name
               ELSE <<"H", "i", "s", "a", "b", " ", "K", "i", "t", "a", "b">>
  IN  <<Line(title \o <<" ", "-", " ", "I", "N", "V", "O", "I", "C", "E">>, 16, 22, 0),
        Line(<<"I", "n", "v", "o", "i", "c", "e", " ", "N", "o", ":", " ">> \o inv.invoice_no, 11, 16, 0),
        Line(<<"D", "a", "t", "e", ":", " ">> \o inv.invoice_date, 11, 16, 0)>>
      \o labelled(<<"P", "l", "a", "c", "e", " ", "o", "f", " ", "S", "u", "p", "p", "l", "y", ":", " ">>, inv.place_of_supply)
      \o <<Spacing(8), Rule>>

\* the From: and To: blocks
party_lines(heading, name, address, email, phone, gstin) ==
  <<Line(heading, 12, 18, 0), Line(<<" ", " ">> \o name, 11, 16, 0)>>
  \o labelled(<<" ", " ", "A", "d", "d", "r", "e", "s", "s", ":", " ">>, address)
  \o labelled(<<" ", " ", "E", "m", "a", "i", "l", ":", " ">>, email)
  \o labelled(<<" ", " ", "P", "h", "o", "n", "e", ":", " ">>, phone)
  \o labelled(<<" ", " ", "G", "S", "T", "I", "N", ":", " ">>, gstin)

\* the chunking without its last line when nothing is left over
RECURSIVE desc_lines_while_at_least(_)
desc_lines_while_at_least(desc) ==
  IF Len(desc) >= DescWidth
  THEN <<SubSeq(desc, 1, DescWidth)>>
       \o desc_lines_while_at_least(SubSeq(desc, DescWidth + 1, Len(desc)))
  ELSE <<desc>>

\* while len(desc) > 35: desc_lines.append(desc[:35]); desc = desc[35:]
\* and then desc_lines.append(desc)
RECURSIVE desc_lines(_)
desc_lines(desc) ==
  IF Len(desc) > DescWidth
  THEN <<SubSeq(desc, 1, DescWidth)>>
       \o desc_lines(SubSeq(desc, DescWidth + 1, Len(desc)))
  ELSE <<desc>>

\* f"  {qty:>5.2f}  {rate:>8.2f}  {amt:>9.2f}"  with amt = qty * rate
columns(it) ==
  <<" ", " ">> \o pad_left(fmt_float(it.qty, 8), 5)
  \o <<" ", " ">> \o pad_left(fmt_float(it.rate, 8), 8)
  \o <<" ", " ">> \o pad_left(fmt_float(it.qty * it.rate, 64), 9)

\* the lines of one item: for dl in desc_lines
item_lines(it, i) ==
  LET dls == desc_lines(it.description)
  IN  [k \in 1..Len(dls) |->
         IF k = 1 THEN Line(pad_right(dls[1], DescWidth) \o columns(it), 10, 14, i)
         ELSE Line(dls[k], 10, 14, i)]

\* for it in items
RECURSIVE items_lines(_, _)
items_lines(its, n) ==
  IF n = 0 THEN <<>> ELSE items_lines(its, n - 1) \o item_lines(its[n], n)

\* Subtotal, GST and TOTAL
totals_lines(inv, subtotal, gst_amount, total) ==
  <<Line(<<"S", "u", "b", "t", "o", "t", "a", "l", ":", " ">> \o fmt2f(subtotal), 11, 16, 0)>>
  \o (IF inv.gst_mode = 1
      THEN <<Line(<<"G", "S", "T", " ", "(">> \o fmt2f(100 * inv.gst_rate) \o <<"%", ")", ":", " ">>
                  \o fmt2f(gst_amount), 11, 16, 0)>>
      ELSE <<>>)
  \o <<Line(<<"T", "O", "T", "A", "L", ":", " ">> \o fmt2f(total), 12, 20, 0)>>

\* while len(part) > 95: line("  " + part[:95]); part = part[95:]
\* and then line("  " + part)
RECURSIVE part_lines(_)
part_lines(part) ==
  IF Len(part) > NoteWidth
  THEN <<Line(<<" ", " ">> \o SubSeq(part, 1, NoteWidth), 10, 14, 0)>>
       \o part_lines(SubSeq(part, NoteWidth + 1, Len(part)))
  ELSE <<Line(<<" ", " ">> \o part, 10, 14, 0)>>

\* for part in notes.split("\n")
RECURSIVE parts_lines(_, _)
parts_lines(parts, n) ==
  IF n = 0 THEN <<>> ELSE parts_lines(parts, n - 1) \o part_lines(parts[n])

notes_lines(notes) ==
  IF notes = <<>> THEN <<>>
  ELSE LET parts == split(remove_char(notes, "\r"), "\n")
       IN  <<Spacing(8), Line(<<"N", "o", "t", "e", "s", ":">>, 12, 18, 0)>>
           \o parts_lines(parts, Len(parts))

\* the statements invoice_pdf executes on the canvas, in order, once
\* calc_totals has returned the invoice
statements(inv, its, business_name) ==
  LET t == calc_totals_of({inv}, its)
  IN  header_lines(inv, business_name)
      \o party_lines(<<"F", "r", "o", "m", ":">>, inv.from_name, inv.from_address,
                     inv.from_email, inv.from_phone, inv.from_gstin)
      \o <<Spacing(6)>>
      \o party_lines(<<"T", "o", ":">>, inv.to_name, inv.to_address,
                     inv.to_email, inv.to_phone, inv.to_gstin)
      \o <<Spacing(10), Rule, Line(<<"D", "e", "s", "c", "r", "i", "p", "t", "i", "o", "n", " ", " ", " ", " ", " ", " ", " ", " ", " ", " ", " ", " ", " ", " ", " ", " ", " ", " ", " ", " ", " ", " ", " ", " ", " ", " ", " ", "Q", "t", "y", " ", " ", " ", " ", " ", " ", "R", "a", "t", "e", " ", " ", " ", " ", " ", " ", "A", "m", "o", "u", "n", "t">>, 11, 18, 0), Rule>>
      \o items_lines(its, Len(its))
      \o <<Spacing(6), Rule>>
      \o totals_lines(inv, t.subtotal, t.gst_amount, t.total)
      \o notes_lines(inv.notes)
      \o <<Statement("showPage"), Statement("save")>>

\* the canvas and the cursor: the statements still to run, y, the pages
\* committed by c.showPage(), the text drawn so far (with the y and page it
\* was drawn at, its gap, and whether line() turned the page for it), and the
\* calls of c.save()
Canvas(inv, its, business_name) ==
  [pc |-> "writing", inv |-> inv, items |-> its,
   todo |-> statements(inv, its, business_name),
   y |-> TopMargin, pages |-> 0, drawn |-> <<>>, saved |-> 0]

PdfIdle ==
  [pc |-> "idle", inv |-> <<>>, items |-> <<>>, todo |-> <<>>,
   y |-> TopMargin, pages |-> 0, drawn |-> <<>>, saved |-> 0]

\* the cursor test without the bottom margin
below_page(y) == y < 0

\* if y < 60
below_margin(y) == y < BottomMargin

\* line(txt, size, gap)
line ==
  /\ pdf.pc = "writing" /\ pdf.todo # <<>> /\ Head(pdf.todo).op = "line"
  /\ LET st == Head(pdf.todo)
         turn == below_margin(pdf.y)
         y == IF turn THEN TopMargin ELSE pdf.y
         pages == IF turn THEN pdf.pages + 1 ELSE pdf.pages
     IN  pdf' = [pdf EXCEPT
                   !.todo = Tail(pdf.todo),
                   !.pages = pages,
                   !.drawn = Append(pdf.drawn,
                                    [txt |-> prefix_of(st.txt, LineWidth),
                                     size |-> st.size, gap |-> st.gap, y |-> y,
                                     page |-> pages,
                                     turned |-> turn, item |-> st.item]),
                   !.y = y - st.gap * Unit]
  /\ UNCHANGED <<invoices, items, today, slot, resp, cf>>

\* y -= n  between the sections
spacing ==
  /\ pdf.pc = "writing" /\ pdf.todo # <<>> /\ Head(pdf.todo).op = "spacing"
  /\ pdf' = [pdf EXCEPT !.todo = Tail(pdf.todo),
                        !.y = pdf.y - Head(pdf.todo).gap * Unit]
  /\ UNCHANGED <<invoices, items, today, slot, resp, cf>>

\* the closing c.showPage()
showPage ==
  /\ pdf.pc = "writing" /\ pdf.todo # <<>> /\ Head(pdf.todo).op = "showPage"
  /\ pdf' = [pdf EXCEPT !.todo = Tail(pdf.todo), !.pages = pdf.pages + 1]
  /\ UNCHANGED <<invoices, items, today, slot, resp, cf>>

\* c.save()
save ==
  /\ pdf.pc = "writing" /\ pdf.todo # <<>> /\ Head(pdf.todo).op = "save"
  /\ pdf' = [pdf EXCEPT !.todo = Tail(pdf.todo), !.saved = pdf.saved + 1,
                        !.pc = IF Tail(pdf.todo) = <<>> THEN "sent" ELSE "writing"]
  /\ UNCHANGED <<invoices, items, today, slot, resp, cf>>

\* ------------------------------------------------------ the persisted store
\* init_db() creates the tables only if they are missing, so the process
\* starts on the rows earlier runs left in DB_PATH: invoices, each with its
\* items; no column is UNIQUE except the ids.
ItemId(i, j) == (i - 1) * MaxItems + j

InvoiceRows(f) ==
  {[id |-> i, user_id |-> f[i].user_id, invoice_no |-> f[i].invoice_no,
    gst_mode |-> f[i].gst_mode, gst_rate |-> f[i].gst_rate] : i \in DOMAIN f}

ItemRows(k) ==
  UNION {{[id |-> ItemId(i, j), invoice_id |-> i,
           description |-> k[i][j].description,
           qty |-> k[i][j].qty, rate |-> k[i][j].rate] : j \in 1..Len(k[i])}
         : i \in DOMAIN k}

Store(max, shapes, itemseqs) ==
  \E n \in 0..max :
    \E f \in [1..n -> shapes], k \in [1..n -> itemseqs] :
      /\ invoices = InvoiceRows(f)
      /\ items = ItemRows(k)

CfIdle == [text |-> <<>>, default |-> decimal(0, 0), done |-> FALSE,
           result |-> decimal(0, 0)]

\* item rows of quantity 1 and rate 1.5
Plain == [description |-> <<"A">>, qty |-> 8, rate |-> 12]

No(day, n) == Prefix(day) \o zfill(str_int(n), 3)

FullItems == [j \in 1..MaxItems |-> Plain]

Rows(max, users, numbers, itemseqs) ==
  Store(max,
        [user_id : users, invoice_no : numbers, gst_mode : {1}, gst_rate : {25}],
        itemseqs)

Quiet ==
  /\ today = D1
  /\ slot = [c \in Clients |-> Idle]
  /\ resp = NoResponse
  /\ cf = CfIdle
  /\ pdf = PdfIdle

\* the whole application
Init ==
  /\ Rows(MaxInv, Users, {No(D1, 1)}, {FullItems})
  /\ Quiet

Next ==
  \/ login_required
  \/ \E c \in Clients : new_invoice_get(c)
  \/ \E c \in Clients : new_invoice(c, SomeForms(c), {<<"B">>})
  \/ \E c \in Clients : view_invoice_select(c)
  \/ \E c \in Clients : view_invoice(c)
  \/ \E c \in Clients : invoice_pdf_select(c)
  \/ \E c \in Clients : invoice_pdf(c)
  \/ \E c \in Clients : delete_invoice_select(c)
  \/ \E c \in Clients : delete_invoice(c)
  \/ midnight

Spec == Init /\ [][Next]_vars

\* creation alone, one client, every form
InitForm ==
  /\ Rows(MaxInv, {1}, {No(D1, 1)}, {<<Plain>>})
  /\ Quiet

NextForm ==
  \/ new_invoice_get(1)
  \/ new_invoice(1, AllForms(1), BusinessNames)

SpecForm == InitForm /\ [][NextForm]_vars

\* numbering alone: stores whose invoice numbers vary
NumberPool ==
  {No(D1, k) : k \in 1..MaxNumbered}
  \cup {No(D2, 1),
        <<"h", "k", "-">> \o D1 \o <<"-", "7">>,
        Prefix(D1) \o <<"A">>}

InitNumber ==
  /\ Rows(MaxNumbered, Users, NumberPool, {<<Plain>>})
  /\ Quiet

NextNumber ==
  \/ new_invoice_get(1)
  \/ midnight

SpecNumber == InitNumber /\ [][NextNumber]_vars

\* totals alone: one invoice whose amounts, tax flag and tax rate vary
\* (quantities 0.5, 1, 1.5; rates 0.25, 1.375, 10; tax 0, 25, 50, 200 percent)
QtyAmounts == {4, 8, 12}

RateAmounts == {2, 11, 80}

GstRates == {0, 25, 50, 200}

ItemSeqs ==
  UNION {[1..n -> [description : {<<"A">>}, qty : QtyAmounts, rate : RateAmounts]]
         : n \in 1..MaxItems}

InitTotals ==
  /\ Store(1, [user_id : {1}, invoice_no : {No(D1, 1)},
               gst_mode : {0, 1}, gst_rate : GstRates], ItemSeqs)
  /\ Quiet

NextTotals ==
  \/ view_invoice_select(1)
  \/ view_invoice(1)
  \/ invoice_pdf_select(1)
  \/ invoice_pdf(1)

SpecTotals == InitTotals /\ [][NextTotals]_vars

\* clean_float alone: every text of up to MaxLen characters, with the
\* defaults its callers pass (0.0, 1.0, 18.0)
Texts == UNION {[1..n -> AmountChars] : n \in 0..MaxLen}

Defaults == {decimal(0, 0), decimal(1, 0), decimal(18, 0)}

InitClean ==
  /\ invoices = {} /\ items = {}
  /\ today = D1
  /\ slot = [c \in Clients |-> Idle]
  /\ resp = NoResponse
  /\ cf \in [text : Texts, default : Defaults, done : {FALSE},
             result : {decimal(0, 0)}]
  /\ pdf = PdfIdle

NextClean == clean_float_call

SpecClean == InitClean /\ [][NextClean]_vars

\* the PDF writer alone, started where calc_totals has returned the invoice:
\* descriptions of every length up to MaxDesc and one of MaxNotes full lines,
\* notes of up to MaxNotes parts, each optional header line present or absent
Desc(n) == [i \in 1..n |-> DigitChar(i % 10)]

PdfItem(n) == [description |-> Desc(n), qty |-> 12, rate |-> 11]

PdfItemSeqs ==
  {<<PdfItem(n)>> : n \in 0..MaxDesc}
  \cup [1..MaxItems -> {PdfItem(1), PdfItem(DescWidth + 1), PdfItem(MaxDesc)}]
  \cup {<<PdfItem(1), PdfItem(DescWidth * MaxNotes)>>}

FewItemSeqs ==
  {<<PdfItem(1)>>}
  \cup {<<PdfItem(DescWidth * MaxNotes), PdfItem(n)>> : n \in {1, DescWidth + 1, MaxDesc}}

NotesPool ==
  {<<>>}
  \cup {<<"a">> \o repeat("\n", k - 1) : k \in 1..MaxNotes}
  \cup {<<"a", "\r", "\n">> \o Desc(NoteWidth),
        Desc(NoteWidth + 1) \o <<"\n">>,
        Desc(2 * NoteWidth + 1)}

PdfInvoices(optional, modes, notes) ==
  [invoice_no : {No(D1, 1)}, invoice_date : {D1},
   place_of_supply : optional,
   from_name : {<<"F">>}, from_address : optional, from_email : optional,
   from_phone : optional, from_gstin : optional,
   to_name : {<<"T">>}, to_address : optional, to_email : optional,
   to_phone : optional, to_gstin : optional,
   gst_mode : modes, gst_rate : {25}, notes : notes]

\* every optional line of a block present, or none
Uniform(inv) ==
  /\ inv.from_email = inv.from_address /\ inv.from_phone = inv.from_address
  /\ inv.from_gstin = inv.from_address
  /\ inv.to_email = inv.to_address /\ inv.to_phone = inv.to_address
  /\ inv.to_gstin = inv.to_address

InitPdf ==
  /\ invoices = {} /\ items = {}
  /\ today = D1
  /\ slot = [c \in Clients |-> Idle]
  /\ resp = NoResponse
  /\ cf = CfIdle
  /\ \/ \E its \in PdfItemSeqs, o \in {<<>>, <<"X">>} :
          \E inv \in PdfInvoices({o}, {1}, {<<>>}) :
            pdf = Canvas(inv, its, <<>>)
     \/ \E its \in FewItemSeqs, b \in BusinessNames :
          \E inv \in PdfInvoices({<<>>, <<"X">>}, {0, 1}, NotesPool) :
            /\ Uniform(inv)
            /\ pdf = Canvas(inv, its, b)

NextPdf ==
  \/ line
  \/ spacing
  \/ showPage
  \/ save

SpecPdf == InitPdf /\ [][NextPdf]_vars

\* ---------------------------------------------------------------- claims
\* C1: per-user isolation of invoice lookup.  For every invoice and every
\* user other than its owner, calc_totals returns the not-found result, and a
\* view_invoice or invoice_pdf response in that user's session is the redirect
\* to the list and carries no invoice row, no item and no total; a response
\* never carries an invoice row of another user.
C1_Isolation ==
  /\ \A inv \in invoices : \A a \in Users \ {inv.user_id} :
       calc_totals(inv.id, a) = NotFound
  /\ resp.op \in {"view_invoice", "invoice_pdf"} =>
       /\ \A row \in resp.inv : row.user_id = resp.user
       /\ (\E inv \in invoices : inv.id = resp.id /\ inv.user_id # resp.user) =>
            /\ resp.status = "index"
            /\ resp.inv = {} /\ resp.items = <<>>
            /\ resp.subtotal = 0 /\ resp.gst_amount = 0 /\ resp.total = 0

\* an invoice was deleted, and a user asked to view an invoice that is
\* stored for another user
C1_Witness ==
  /\ resp.op = "view_invoice"
  /\ \E inv \in invoices :
       /\ inv.id = resp.id /\ inv.user_id # resp.user
       /\ \E gone \in 1..(inv.id - 1) : \A other \in invoices : other.id # gone


\* the form names a number, a date and both parties, and an item with a
\* description
Supplied(form) ==
  /\ strip(form.invoice_no) # <<>>
  /\ strip(form.invoice_date) # <<>>
  /\ strip(form.from_name) # <<>>
  /\ strip(form.to_name) # <<>>
  /\ \E i \in 1..Len(form.descs) : strip(form.descs[i]) # <<>>

Described(form) == {i \in 1..Len(form.descs) : strip(form.descs[i]) # <<>>}

\* C2: a POST to /new with a number, a date, both names and at least one
\* described item ends in the redirect to the view of a new invoice of that
\* user, stored under the posted number with one item per described row.
C2_CreationStores ==
  (resp.op = "new_invoice" /\ Supplied(resp.form)) =>
    /\ resp.status = "view_invoice"
    /\ \E inv \in invoices :
         /\ inv.id = resp.id
         /\ inv.user_id = resp.user
         /\ inv.invoice_no = strip(resp.form.invoice_no)
         /\ Len(select_items(inv.id)) = Cardinality(Described(resp.form))

\* C4: two creations of one user that were handed the same number by
\* next_invoice_no and are posted one after the other leave that user with
\* two invoices of that number.
C4_RaceStoresDuplicate ==
  [][\A c \in Clients :
       ( /\ slot[c].pc = "form" /\ slot'[c].pc = "idle"
         /\ resp'.op = "new_invoice" /\ Supplied(resp'.form)
         /\ resp'.user = slot[c].user /\ resp'.form.invoice_no = slot[c].no
         /\ resp.op = "new_invoice" /\ Supplied(resp.form)
         /\ resp.user = slot[c].user /\ resp.form.invoice_no = slot[c].no )
       => Cardinality({inv \in invoices' : /\ inv.user_id = slot[c].user
                                           /\ inv.invoice_no = slot[c].no}) >= 2
    ]_vars

\* every item belongs to a stored invoice, every invoice has an item
Referential ==
  /\ \A it \in items : \E inv \in invoices : inv.id = it.invoice_id
  /\ \A inv \in invoices : \E it \in items : it.invoice_id = inv.id

\* C9: every stored item refers to a stored invoice and every stored invoice
\* has an item; rows change only when an owner's delete_invoice commits, which
\* removes that invoice and its items and nothing else; a delete_invoice on an
\* invoice that is missing or belongs to another user changes no row.
C9_Cascade ==
  /\ Referential
  /\ [][ /\ Referential'
         /\ (invoices' # invoices \/ items' # items) =>
              \E c \in Clients : \E inv \in invoices :
                /\ slot[c].pc = "delete_invoice" /\ slot'[c].pc = "idle"
                /\ inv.id = slot[c].id /\ inv.user_id = slot[c].user
                /\ invoices' = invoices \ {inv}
                /\ items' = items \ {it \in items : it.invoice_id = inv.id}
         /\ \A c \in Clients :
              (slot[c].pc = "delete_invoice" /\ slot'[c].pc = "idle") =>
                /\ \A inv \in invoices' : inv.id # slot[c].id
                /\ \A it \in items' : it.invoice_id # slot[c].id
         /\ (resp'.op = "delete_invoice" /\ resp'.flash = "Not allowed.") =>
              (invoices' = invoices /\ items' = items)
       ]_vars

\* an owner deleted an invoice of several items, another invoice is left,
\* and a user then asked to delete an invoice that is not theirs
C9_Witness ==
  /\ resp.op = "delete_invoice" /\ resp.flash = "Not allowed."
  /\ \E inv \in invoices :
       /\ inv.id = resp.id /\ inv.user_id # resp.user
       /\ Len(select_items(inv.id)) >= 2
       /\ \E gone \in 1..(inv.id - 1) : \A other \in invoices : other.id # gone


\* the user's invoices numbered for `day`, oldest first
NumberedFor(u, day) ==
  by_id({inv \in invoices :
           /\ inv.user_id = u
           /\ Len(inv.invoice_no) >= Len(Prefix(day))
           /\ SubSeq(inv.invoice_no, 1, Len(Prefix(day))) = Prefix(day)})

\* every invoice of the user carries a number next_invoice_no returns, and
\* those of `day` are the first n numbers in the order they were stored
Sequential(u, day, n) ==
  /\ \A inv \in invoices : inv.user_id = u =>
       \E d \in Days, k \in 1..(MaxNumbered + 1) : inv.invoice_no = No(d, k)
  /\ Len(NumberedFor(u, day)) = n
  /\ \A k \in 1..n : NumberedFor(u, day)[k].invoice_no = No(day, k)

\* C3: sequential numbering.  When a user's invoices of the day are the
\* first n numbers HK-<day>-001.. in the order stored (n = 0: none), GET
\* /new hands that user HK-<day>-<n+1, zero-padded to 3 digits>, whatever
\* the invoices of the other users.
C3_Sequential ==
  [][ ( /\ resp'.op = "new_invoice_get"
        /\ today' = today
        /\ (resp' # resp \/ slot' # slot) )
      => \A n \in 0..MaxNumbered :
           Sequential(resp'.user, today, n)
             => resp'.form.invoice_no = No(today, n + 1)
    ]_vars

\* a user with the day's 001 and 002 was handed 003 while another user
\* holds invoices of the same day
C3_Witness ==
  /\ resp.op = "new_invoice_get"
  /\ Sequential(resp.user, today, 2)
  /\ resp.form.invoice_no = No(today, 3)
  /\ \E u \in Users \ {resp.user} : Len(NumberedFor(u, today)) >= 1

\* C5: the tax returned by calc_totals is round(subtotal * tax_rate / 100, 2)
\* of the returned subtotal when the tax flag is set, and 0 when it is not.
C5_TaxOfReturnedSubtotal ==
  (resp.op = "view_invoice" /\ resp.inv # {}) =>
    \A row \in resp.inv :
      resp.gst_amount = IF row.gst_mode # 0
                        THEN round2(resp.subtotal * row.gst_rate, 10000)
                        ELSE 0

\* C6: the returned total is round(subtotal + tax, 2) of the returned
\* subtotal and tax: the three displayed amounts add up.
C6_TotalAddsUp ==
  (resp.op \in {"view_invoice", "invoice_pdf"} /\ resp.inv # {}) =>
    resp.total = resp.subtotal + resp.gst_amount

\* the form fails validation: a required field is missing or blank, or no
\* posted item row has a description
FailsValidation(form, business_name) ==
  \/ strip(form.invoice_no) = <<>>
  \/ strip(form.invoice_date) = <<>>
  \/ strip(form.to_name) = <<>>
  \/ (form.from_name = <<>> /\ strip(business_name) = <<>>)
  \/ (form.from_name # <<>> /\ strip(form.from_name) = <<>>)
  \/ \A i \in 1..Len(form.descs) :
       (i <= Len(form.qtys) /\ i <= Len(form.rates)) => strip(form.descs[i]) = <<>>

\* C7: a POST to /new that fails validation leaves invoices and items as
\* they were and ends in the redirect back to the form.
C7_InvalidPostWritesNothing ==
  [][\A c \in Clients :
       ( /\ slot[c].pc \in {"idle", "form"} /\ slot'[c].pc = "idle"
         /\ resp'.op = "new_invoice"
         /\ (resp' # resp \/ slot' # slot)
         /\ FailsValidation(resp'.form, resp'.business_name) )
       => /\ invoices' = invoices /\ items' = items
          /\ resp'.status = "new_invoice"
    ]_vars

\* a form complete but for its items, which are all blank, was posted while
\* invoices are stored
C7_Witness ==
  /\ resp.op = "new_invoice" /\ resp.status = "new_invoice"
  /\ resp.flash = "At least 1 item required."
  /\ resp.form.descs # <<>>
  /\ invoices # {} /\ items # {}

\* the text without its surrounding blanks and without one trailing percent
\* sign
Unsigned(text) ==
  LET t == strip(text)
  IN  IF t # <<>> /\ t[Len(t)] = "%" THEN strip(SubSeq(t, 1, Len(t) - 1)) ELSE t

\* digits in groups of three from the right with a comma before each group,
\* as in 1,200
Grouped(t) ==
  /\ t # <<>>
  /\ \A i \in 1..Len(t) :
       IF (Len(t) - i) % 4 = 3 THEN i > 1 /\ t[i] = ","
       ELSE t[i] \in DigitChars

\* the text once a trailing percent sign and the thousands separators are
\* stripped
Stripped(text) ==
  IF Grouped(Unsigned(text)) THEN remove_char(Unsigned(text), ",")
  ELSE Unsigned(text)

\* C10: for a text whose only percent sign, if any, is a trailing one,
\* clean_float returns the amount of the text with that sign and the
\* thousands separators stripped ("18%" is 18, "1,200" is 1200), and the
\* default when the text is empty or cannot be parsed.
C10_CleanFloat ==
  (cf.done /\ \A i \in 1..Len(Unsigned(cf.text)) : Unsigned(cf.text)[i] # "%")
  => cf.result = IF Stripped(cf.text) # <<>> /\ float(Stripped(cf.text)).ok
                 THEN float(Stripped(cf.text)).val
                 ELSE cf.default


\* the drawn lines that carry the description of item i, in order
LinesOf(i) == {k \in 1..Len(pdf.drawn) : pdf.drawn[k].item = i}

\* ceil(L / 35) for a description longer than 35, and 1 otherwise
WrapCount(L) ==
  IF L > DescWidth THEN (L + DescWidth - 1) \div DescWidth ELSE 1

\* characters 35(j-1)+1 .. 35j of the description
Chunk(desc, j) ==
  SubSeq(desc, DescWidth * (j - 1) + 1, Min(DescWidth * j, Len(desc)))

\* C11: in the finished PDF an item whose description has length L > 35 is
\* drawn as ceil(L/35) consecutive lines, the j-th carrying characters
\* 35(j-1)+1..35j of the description, with the quantity, rate and amount
\* columns on the first of them only; an item with L <= 35 is drawn as
\* exactly one line.
C11_DescriptionWrap ==
  pdf.pc = "sent" =>
    \A i \in 1..Len(pdf.items) :
      LET it == pdf.items[i]
          n == WrapCount(Len(it.description))
      IN  /\ Cardinality(LinesOf(i)) = n
          /\ \E a \in 1..Len(pdf.drawn) :
               /\ LinesOf(i) = a..(a + n - 1)
               /\ pdf.drawn[a].txt
                    = pad_right(Chunk(it.description, 1), DescWidth) \o columns(it)
               /\ \A j \in 2..n :
                    pdf.drawn[a + j - 1].txt = Chunk(it.description, j)

\* a finished PDF with an item whose description is a whole number of full
\* lines, more than one, and whose lines run over a page turn
C11_Witness ==
  /\ pdf.pc = "sent"
  /\ \E i \in 1..Len(pdf.items) :
       /\ Len(pdf.items[i].description) > DescWidth
       /\ Len(pdf.items[i].description) % DescWidth = 0
       /\ \E k \in LinesOf(i) :
            k - 1 \in LinesOf(i) /\ pdf.drawn[k].turned

\* C12: every line is drawn with the cursor between the bottom margin (60)
\* and the top margin (height - 50); a call of line() that finds the cursor
\* below the bottom margin, also when a spacing between sections took it
\* there, commits the page and draws at the top margin; the document is saved
\* exactly once, after the last line, and nothing is drawn after that.
C12_PageBreak ==
  /\ \A k \in 1..Len(pdf.drawn) :
       pdf.drawn[k].y >= BottomMargin /\ pdf.drawn[k].y <= TopMargin
  /\ pdf.saved <= 1
  /\ pdf.pc = "writing" => (pdf.saved = 0 /\ ENABLED NextPdf)
  /\ pdf.pc = "sent" =>
       (pdf.saved = 1 /\ pdf.todo = <<>> /\ pdf.pages = pdf.drawn[Len(pdf.drawn)].page + 1)
  /\ [][ /\ (Len(pdf'.drawn) > Len(pdf.drawn) /\ pdf.y < BottomMargin) =>
              /\ pdf'.pages = pdf.pages + 1
              /\ pdf'.drawn[Len(pdf'.drawn)].y = TopMargin
              /\ pdf'.drawn[Len(pdf'.drawn)].page = pdf'.pages
         /\ pdf.saved = 1 => pdf'.drawn = pdf.drawn
       ]_vars

\* a finished PDF of several pages in which a line() after a spacing found
\* the cursor below the bottom margin that the line before had left above it
C12_Witness ==
  /\ pdf.pc = "sent" /\ pdf.saved = 1 /\ pdf.pages >= 2
  /\ \E k \in 2..Len(pdf.drawn) :
       /\ pdf.drawn[k].turned
       /\ pdf.drawn[k - 1].y - pdf.drawn[k - 1].gap * Unit >= BottomMargin

====
